---- MODULE Spec2Model ----
(***************************************************************************)
(* Model of DataImportToAccess.py: the identifier sanitizer, the column    *)
(* and table name resolvers, the type inferencer, the batched row writer   *)
(* and the per-sheet import loop of main() against a transactional store.  *)
(*                                                                         *)
(* A Python str is a sequence of one-character strings.                    *)
(***************************************************************************)
EXTENDS Integers, Sequences, FiniteSets, Bags, TLC

VARIABLES
    \* sanitize_identifier applied once and again
    san_pc, san_in, san_once, san_twice,
    \* make_unique_truncated: its arguments, locals and loop position
    u_pc, u_names, u_max_len, u_k, u_i, used, shorts, mapping,
    \* insert_rows: the frame's rows, the batch size, the batches handed to
    \* executemany so far and the rows the table holds
    i_pc, i_rows, i_batch_size, i_submitted, i_table,
    \* access_type_for_series: the column and the type returned
    t_pc, t_series, t_result,
    \* main: the position in the run, excel.sheet_names, the sheets committed
    \* so far, the registry of table names, the current sheet's frame, table
    \* name and column mapping, the batches sent, INSERT_BATCH_SIZE, the
    \* store as the open transaction sees it and as last committed
    pc, sheet_names, sheet_idx, used_table_names, df, table_name, col_mapping,
    n_sent, insert_batch_size, db, committed,
    \* history: the table names assigned in this run, in order; the frame last
    \* committed into each table; whether the last commit replaced a table
    \* that held other rows
    assigned, imported, replaced

sanVars  == <<san_pc, san_in, san_once, san_twice>>
uniqVars == <<u_pc, u_names, u_max_len, u_k, u_i, used, shorts, mapping>>
insVars  == <<i_pc, i_rows, i_batch_size, i_submitted, i_table>>
typeVars == <<t_pc, t_series, t_result>>
mainVars == <<pc, sheet_names, sheet_idx, used_table_names, df, table_name,
              col_mapping, n_sent, insert_batch_size, db, committed,
              assigned, imported, replaced>>
vars     == <<sanVars, uniqVars, insVars, typeVars, mainVars>>

otherThanSan  == <<uniqVars, insVars, typeVars, mainVars>>
otherThanUniq == <<sanVars, insVars, typeVars, mainVars>>
otherThanIns  == <<sanVars, uniqVars, typeVars, mainVars>>
otherThanType == <<sanVars, uniqVars, insVars, mainVars>>
otherThanMain == <<sanVars, uniqVars, insVars, typeVars>>

----------------------------------------------------------------------------
(* Bounds of the model *)

MaxStrLen == 4      \* longest raw name given to sanitize_identifier alone
MaxNames  == 3      \* longest list of names given to make_unique_truncated
MaxSmallLen == 6    \* max_len ranges over 0..MaxSmallLen and MAX_COLNAME_LEN
MaxRows == 4        \* most rows of a frame given to insert_rows alone
MaxBatchSize == 5   \* batch sizes range over 1..MaxBatchSize
MaxValues == 3      \* most values of a column given to access_type_for_series
MaxSheets == 2      \* most sheets of a workbook

----------------------------------------------------------------------------
(* Characters and strings *)

Letters == {"a", "b", "c", "d", "e", "l", "o", "t", "x", "y", "T",
            "F", "i", "r", "s", "N", "m"}
Digits  == {"0", "1", "2", "3", "4", "5", "6", "7", "8", "9"}
Spaces  == {" "}
Puncts  == {"-"}
\* \w with re.UNICODE: letters, digits and the underscore
WordChars    == Letters \cup Digits \cup {"_"}
NonWordChars == Spaces \cup Puncts

StringsUpTo(alphabet, n) == UNION {[1..k -> alphabet] : k \in 0..n}

Take(s, n) == SubSeq(s, 1, IF n < Len(s) THEN n ELSE Len(s))

RECURSIVE LStrip(_, _)
LStrip(s, class) ==
    IF s = <<>> \/ Head(s) \notin class THEN s ELSE LStrip(Tail(s), class)

RECURSIVE RStrip(_, _)
RStrip(s, class) ==
    IF s = <<>> \/ s[Len(s)] \notin class THEN s
    ELSE RStrip(SubSeq(s, 1, Len(s) - 1), class)

\* str.strip(chars)
Strip(s, class) == RStrip(LStrip(s, class), class)

\* re.sub(r"[class]+", "_", s): every maximal run of class becomes one "_"
RECURSIVE SubRuns(_, _)
SubRuns(s, class) ==
    IF s = <<>> THEN <<>>
    ELSE IF Head(s) \in class
         THEN <<"_">> \o SubRuns(LStrip(Tail(s), class), class)
         ELSE <<Head(s)>> \o SubRuns(Tail(s), class)

\* str(i) for i >= 0
RECURSIVE Decimal(_)
Decimal(n) ==
    LET digit(d) == CHOOSE ch \in Digits :
            ch = <<"0", "1", "2", "3", "4", "5", "6", "7", "8", "9">>[d + 1]
    IN  IF n < 10 THEN <<digit(n)>> ELSE Decimal(n \div 10) \o <<digit(n % 10)>>

MAX_COLNAME_LEN == 30

----------------------------------------------------------------------------
(* sanitize_identifier *)

\* A plausible slip: the underscores are stripped before the separators are
\* replaced, so a leading separator leaves a leading underscore.
sanitize_strip_first(name) ==
    LET s1 == Strip(Strip(name, Spaces), {"_"})
        s2 == SubRuns(SubRuns(s1, NonWordChars), {"_"})
        s3 == IF s2 = <<>> THEN <<"c", "o", "l">> ELSE s2
    IN  IF s3[1] \in Digits THEN <<"c", "_">> \o s3 ELSE s3

sanitize_identifier(name) ==
    LET s1 == Strip(name, Spaces)
        s2 == SubRuns(s1, NonWordChars)
        s3 == Strip(SubRuns(s2, {"_"}), {"_"})
        s4 == IF s3 = <<>> THEN <<"c", "o", "l">> ELSE s3
    IN  IF s4[1] \in Digits THEN <<"c", "_">> \o s4 ELSE s4

SanAlphabet == {"a", "c", "1", "_", " ", "-"}

SanIdle == /\ san_pc = "idle" /\ san_in = <<>>
           /\ san_once = <<>> /\ san_twice = <<>>

SanInit == /\ san_pc = "start"
           /\ san_in \in StringsUpTo(SanAlphabet, MaxStrLen)
           /\ san_once = <<>> /\ san_twice = <<>>

SanApply ==
    /\ san_pc = "start"
    /\ san_once' = sanitize_identifier(san_in)
    /\ san_pc' = "once"
    /\ UNCHANGED <<san_in, san_twice, otherThanSan>>

SanReapply ==
    /\ san_pc = "once"
    /\ san_twice' = sanitize_identifier(san_once)
    /\ san_pc' = "twice"
    /\ UNCHANGED <<san_in, san_once, otherThanSan>>

----------------------------------------------------------------------------
(* make_unique_truncated *)

\* lines 59-62: the sanitized name cut to max_len, "col" when nothing is left
TruncatedBase(original, max_len) ==
    LET base == sanitize_identifier(original)
        cut  == IF Len(base) > max_len THEN Take(base, max_len) ELSE base
    IN  IF cut = <<>> THEN <<"c", "o", "l">> ELSE cut

Suffix(i) == <<"_">> \o Decimal(i)

\* A plausible slip: the suffix is appended to the whole base, never trimmed.
SuffixedCandidateUntrimmed(base, max_len, i) == base \o Suffix(i)

\* lines 73-75
SuffixedCandidate(base, max_len, i) ==
    LET suffix  == Suffix(i)
        trimmed == IF max_len > Len(suffix)
                   THEN Take(base, max_len - Len(suffix)) ELSE <<>>
    IN  IF trimmed # <<>> THEN trimmed \o suffix ELSE <<"c">> \o suffix

\* A plausible slip: the suffix counter starts one too high.
FirstSuffixIndexThree == 2 + 1

\* line 71
FirstSuffixIndex == 2

\* dict assignment mapping[str(original)] = candidate
DictSet(d, key, value) ==
    [x \in DOMAIN d \cup {key} |-> IF x = key THEN value ELSE d[x]]

EmptyDict == [x \in {} |-> <<>>]

NamePool == { <<>>,
              <<"a", "b">>,
              <<"a", "b", "c", "d", "e">>,
              <<"T", "o", "t", "a", "l">>,
              <<"a", "b", "_", "2">>,
              <<"1", "x">>,
              <<"c", "_", "2">> }

MaxLens == (0..MaxSmallLen) \cup {MAX_COLNAME_LEN}

UniqIdle == /\ u_pc = "idle" /\ u_names = <<>> /\ u_max_len = 0 /\ u_k = 0
            /\ u_i = 0 /\ used = {} /\ shorts = <<>> /\ mapping = EmptyDict

UniqInit == /\ u_pc = "for"
            /\ u_names \in StringsUpTo(NamePool, MaxNames)
            /\ u_max_len \in MaxLens
            /\ u_k = 0 /\ u_i = 0
            /\ used = {} /\ shorts = <<>> /\ mapping = EmptyDict

CurrentBase == TruncatedBase(u_names[u_k + 1], u_max_len)

\* lines 66-68 and 77-79
Assign(candidate) ==
    /\ used' = used \cup {candidate}
    /\ shorts' = Append(shorts, candidate)
    /\ mapping' = DictSet(mapping, u_names[u_k + 1], candidate)
    /\ u_k' = u_k + 1

\* lines 64-69: the base is free
UniqAccept ==
    /\ u_pc = "for" /\ u_k < Len(u_names)
    /\ CurrentBase \notin used
    /\ Assign(CurrentBase)
    /\ u_i' = 0
    /\ UNCHANGED <<u_pc, u_names, u_max_len, otherThanUniq>>

\* lines 65, 71: the base is taken, enter the while loop
UniqCollide ==
    /\ u_pc = "for" /\ u_k < Len(u_names)
    /\ CurrentBase \in used
    /\ u_i' = FirstSuffixIndex
    /\ u_pc' = "while"
    /\ UNCHANGED <<u_names, u_max_len, u_k, used, shorts, mapping, otherThanUniq>>

\* lines 76-80
UniqTake ==
    /\ u_pc = "while"
    /\ SuffixedCandidate(CurrentBase, u_max_len, u_i) \notin used
    /\ Assign(SuffixedCandidate(CurrentBase, u_max_len, u_i))
    /\ u_pc' = "for"
    /\ UNCHANGED <<u_names, u_max_len, u_i, otherThanUniq>>

\* line 81
UniqRetry ==
    /\ u_pc = "while"
    /\ SuffixedCandidate(CurrentBase, u_max_len, u_i) \in used
    /\ u_i' = u_i + 1
    /\ UNCHANGED <<u_pc, u_names, u_max_len, u_k, used, shorts, mapping, otherThanUniq>>

\* line 83
UniqReturn ==
    /\ u_pc = "for" /\ u_k = Len(u_names)
    /\ u_pc' = "done"
    /\ UNCHANGED <<u_names, u_max_len, u_k, u_i, used, shorts, mapping, otherThanUniq>>

\* make_unique_truncated as a function of its arguments: the for loop
\* folded over names, the while loop as the search for the first free index
RECURSIVE FreeIndex(_, _, _, _)
FreeIndex(base, max_len, usedSet, i) ==
    IF SuffixedCandidate(base, max_len, i) \notin usedSet THEN i
    ELSE FreeIndex(base, max_len, usedSet, i + 1)

RECURSIVE UniqueFrom(_, _, _)
UniqueFrom(names, max_len, st) ==
    IF names = <<>> THEN st
    ELSE LET original  == Head(names)
             base      == TruncatedBase(original, max_len)
             candidate ==
                 IF base \notin st.used THEN base
                 ELSE SuffixedCandidate(base, max_len,
                          FreeIndex(base, max_len, st.used, FirstSuffixIndex))
         IN  UniqueFrom(Tail(names), max_len,
                 [used    |-> st.used \cup {candidate},
                  shorts  |-> Append(st.shorts, candidate),
                  mapping |-> DictSet(st.mapping, original, candidate)])

make_unique_truncated(names, max_len) ==
    UniqueFrom(names, max_len,
               [used |-> {}, shorts |-> <<>>, mapping |-> EmptyDict])

----------------------------------------------------------------------------
(* Properties of sanitize_identifier *)

\* C6: sanitize_identifier is idempotent: applied to its own result it
\* returns that result, for every input, the empty, the separator-only and
\* the digit-leading ones included.
C6_SanitizeIdempotent == san_pc = "twice" => san_twice = san_once

\* a digit-leading input received the c_ prefix and was sanitized again
C6_Witness ==
    /\ san_pc = "twice"
    /\ san_in = <<"1", "-", "a">>
    /\ san_once = <<"c", "_", "1", "_", "a">>

----------------------------------------------------------------------------
(* Properties of make_unique_truncated *)

Distinct(seq) ==
    \A a, b \in 1..Len(seq) : a # b => seq[a] # seq[b]

\* C1: the identifiers returned are pairwise distinct and each at most
\* max_len characters long, whatever the names and whatever max_len.
C1_DistinctAndBounded ==
    /\ Distinct(shorts)
    /\ \A j \in 1..Len(shorts) : Len(shorts[j]) <= u_max_len

Earlier(j) == {shorts[m] : m \in 1..(j - 1)}

\* C9: first come, first served. The identifiers assigned so far are the
\* function's result on the names read so far; a name whose base is unused at
\* its turn gets exactly the base; a colliding name gets the suffixed
\* candidate of the smallest index i >= 2 that is unused at its turn.
C9_FirstComeFirstServed ==
    /\ u_pc \in {"for", "done"} =>
         shorts = make_unique_truncated(SubSeq(u_names, 1, u_k), u_max_len).shorts
    /\ \A j \in 1..Len(shorts) :
         LET base == TruncatedBase(u_names[j], u_max_len)
         IN  IF base \notin Earlier(j)
             THEN shorts[j] = base
             ELSE \E i \in 2..(j + 1) :
                    /\ shorts[j] = SuffixedCandidate(base, u_max_len, i)
                    /\ shorts[j] \notin Earlier(j)
                    /\ \A m \in 2..(i - 1) :
                         SuffixedCandidate(base, u_max_len, m) \in Earlier(j)

Total == <<"T", "o", "t", "a", "l">>

C9_Witness ==
    /\ u_pc = "done"
    /\ u_names = <<Total, Total, Total>>
    /\ u_max_len = MAX_COLNAME_LEN
    /\ shorts = <<Total, Total \o <<"_", "2">>, Total \o <<"_", "3">> >>

\* C10: a colliding name's identifier is the original sanitized base cut to
\* max_len - len("_i") characters followed by "_i", which fits max_len; it
\* is "c_i" when max_len leaves no room for a base character.
C10_SuffixedFromBase ==
    \A j \in 1..Len(shorts) :
        LET base == TruncatedBase(u_names[j], u_max_len)
        IN  base \in Earlier(j) =>
              \E i \in 2..(j + 1) :
                 LET suffix == <<"_">> \o Decimal(i)
                     room   == u_max_len - Len(suffix)
                 IN  IF room > 0
                     THEN /\ shorts[j] = Take(base, room) \o suffix
                          /\ Len(shorts[j]) <= u_max_len
                     ELSE shorts[j] = <<"c">> \o suffix

C10_Witness ==
    /\ u_pc = "done"
    /\ u_names = << <<"a", "b", "c", "d", "e">>, <<"a", "b", "c", "d", "e">> >>
    /\ u_max_len = 5
    /\ shorts = << <<"a", "b", "c", "d", "e">>, <<"a", "b", "c", "_", "2">> >>

----------------------------------------------------------------------------
(* Cells. A text value is represented by its length val, the one thing    *)
(* the code reads of it (astype(str).map(len)), an integer by its value;  *)
(* NaN is pandas' missing marker and None the null handed to the driver.  *)

NaN     == [kind |-> "NaN", val |-> 0]
None    == [kind |-> "None", val |-> 0]
Text(n) == [kind |-> "str", val |-> n]
IntCell(n) == [kind |-> "int", val |-> n]

IsNull(cell) == cell.kind \in {"NaN", "None"}

----------------------------------------------------------------------------
(* _batched and insert_rows *)

\* A plausible slip: the batch left over when the rows run out is dropped.
RECURSIVE BatchedFromNoFlush(_, _, _, _)
BatchedFromNoFlush(items, batch_size, batch, out) ==
    IF items = <<>> THEN out
    ELSE LET b == Append(batch, Head(items))
         IN  IF Len(b) >= batch_size
             THEN BatchedFromNoFlush(Tail(items), batch_size, <<>>, Append(out, b))
             ELSE BatchedFromNoFlush(Tail(items), batch_size, b, out)

\* lines 156-163: the batches yielded, in order
RECURSIVE BatchedFrom(_, _, _, _)
BatchedFrom(items, batch_size, batch, out) ==
    IF items = <<>>
    THEN IF batch # <<>> THEN Append(out, batch) ELSE out
    ELSE LET b == Append(batch, Head(items))
         IN  IF Len(b) >= batch_size
             THEN BatchedFrom(Tail(items), batch_size, <<>>, Append(out, b))
             ELSE BatchedFrom(Tail(items), batch_size, b, out)

batched(iterable, batch_size) == BatchedFrom(iterable, batch_size, <<>>, <<>>)

\* line 172: df.where(pd.notnull(df), None).itertuples(index=False, name=None)
RowsIter(rows) ==
    [r \in 1..Len(rows) |->
        [c \in 1..Len(rows[r]) |->
            IF IsNull(rows[r][c]) THEN None ELSE rows[r][c]]]

RowPool == { <<Text(1)>>, <<Text(2)>>, <<NaN>> }

InsIdle == /\ i_pc = "idle" /\ i_rows = <<>> /\ i_batch_size = 1
           /\ i_submitted = <<>> /\ i_table = <<>>

InsInit == /\ i_pc = "insert"
           /\ i_rows \in StringsUpTo(RowPool, MaxRows)
           /\ i_batch_size \in 1..MaxBatchSize
           /\ i_submitted = <<>> /\ i_table = <<>>

PendingBatches == batched(RowsIter(i_rows), i_batch_size)

\* lines 175-176: one executemany
InsertRowsBatch ==
    /\ i_pc = "insert"
    /\ Len(i_submitted) < Len(PendingBatches)
    /\ LET batch == PendingBatches[Len(i_submitted) + 1]
       IN  /\ i_submitted' = Append(i_submitted, batch)
           /\ i_table' = i_table \o batch
    /\ UNCHANGED <<i_pc, i_rows, i_batch_size, otherThanIns>>

\* the generator is exhausted
InsertRowsReturn ==
    /\ i_pc = "insert"
    /\ Len(i_submitted) = Len(PendingBatches)
    /\ i_pc' = "done"
    /\ UNCHANGED <<i_rows, i_batch_size, i_submitted, i_table, otherThanIns>>

RECURSIVE Flatten(_)
Flatten(seqs) == IF seqs = <<>> THEN <<>> ELSE Head(seqs) \o Flatten(Tail(seqs))

\* C5: the batches submitted, concatenated in submission order, are the input
\* rows: the same rows in the same order, none lost or duplicated; no batch
\* is empty, every batch but the last holds exactly batch_size rows, and the
\* final partial batch is flushed, so the table ends with the input rows for
\* every batch size.
C5_BatchingPreservesRows ==
    /\ \A b \in 1..Len(i_submitted) :
         /\ i_submitted[b] # <<>>
         /\ Len(i_submitted[b]) <= i_batch_size
         /\ b < Len(i_submitted) => Len(i_submitted[b]) = i_batch_size
    /\ Flatten(i_submitted) = SubSeq(RowsIter(i_rows), 1, Len(Flatten(i_submitted)))
    /\ i_table = Flatten(i_submitted)
    /\ i_pc = "done" => i_table = RowsIter(i_rows)

\* three rows in batches of two: a full batch and a flushed partial one
C5_Witness ==
    /\ i_pc = "done"
    /\ Len(i_rows) = 3 /\ i_batch_size = 2
    /\ Len(i_submitted) = 2 /\ Len(i_submitted[2]) = 1
    /\ i_table = RowsIter(i_rows)

----------------------------------------------------------------------------
(* access_type_for_series *)

TextLimit == 255

\* a float: NaN or a number
Num(v)   == [nan |-> FALSE, v |-> v]
FloatNaN == [nan |-> TRUE, v |-> 0]

SetMax(S) == CHOOSE m \in S : \A x \in S : x <= m

\* s.dropna().astype(str).map(len).max(): NaN for a series left empty
MaxTextLen(values) ==
    LET lens == {values[j].val : j \in {k \in 1..Len(values) : ~IsNull(values[k])}}
    IN  IF lens = {} THEN FloatNaN ELSE Num(SetMax(lens))

\* x or 0: 0 replaces a falsy x; NaN is truthy
OrZero(x) == IF ~x.nan /\ x.v = 0 THEN Num(0) ELSE x

\* lines 97-106; int() of NaN raises ValueError
access_type_for_series(s) ==
    IF s.dtype = "int64" THEN "LONG"
    ELSE IF s.dtype = "float64" THEN "DOUBLE"
    ELSE IF s.dtype = "bool" THEN "YESNO"
    ELSE IF s.dtype = "datetime64" THEN "DATETIME"
    ELSE LET max_len == OrZero(MaxTextLen(s.values))
         IN  IF max_len.nan THEN "ValueError"
             ELSE IF max_len.v <= TextLimit THEN "TEXT(255)" ELSE "LONGTEXT"

DTypes == {"int64", "float64", "bool", "datetime64", "object"}

ValuePool == {NaN, None, Text(0), Text(1), Text(255), Text(256), Text(300)}

TypeIdle == /\ t_pc = "idle" /\ t_series = [dtype |-> "object", values |-> <<>>]
            /\ t_result = ""

TypeInit == /\ t_pc = "call"
            /\ t_series \in [dtype : DTypes, values : StringsUpTo(ValuePool, MaxValues)]
            /\ t_result = ""

TypeInfer ==
    /\ t_pc = "call"
    /\ t_result' = access_type_for_series(t_series)
    /\ t_pc' = "done"
    /\ UNCHANGED <<t_series, otherThanType>>

\* C8: a column that is not integer-, float-, boolean- or datetime-typed is
\* TEXT(255) exactly when the longest text of its non-missing values is at
\* most 255 characters and LONGTEXT otherwise; with no non-missing value it
\* is TEXT(255), not an error.
C8_TextTypeByMaxLength ==
    t_pc = "done" /\ t_series.dtype = "object" =>
        LET present == {j \in 1..Len(t_series.values) : ~IsNull(t_series.values[j])}
        IN  IF present = {} \/ \A j \in present : t_series.values[j].val <= 255
            THEN t_result = "TEXT(255)"
            ELSE t_result = "LONGTEXT"

----------------------------------------------------------------------------
(* Frames: what pd.read_excel returns for a sheet. A column label is a     *)
(* header cell, a number or a text; str(label) is its text.                *)

StrLabel(text) == [kind |-> "str", text |-> text]
IntLabel(text) == [kind |-> "int", text |-> text]

\* str(c)
StrOf(label) == label.text

\* df[orig], a column of the frame
Column(frame, j) ==
    [dtype  |-> frame.dtypes[j],
     values |-> [r \in 1..Len(frame.rows) |-> frame.rows[r][j]]]

NoFrame == [columns |-> <<>>, dtypes |-> <<>>, rows |-> <<>>]

\* one text column, three rows, one value missing
FrameText ==
    [columns |-> <<StrLabel(<<"x">>)>>, dtypes |-> <<"object">>,
     rows |-> << <<Text(1)>>, <<NaN>>, <<Text(2)>> >>]
\* two headers that sanitize to the same identifier, a long text
FrameTwo ==
    [columns |-> <<StrLabel(<<"x", " ", "y">>), StrLabel(<<"x", "_", "y">>)>>,
     dtypes |-> <<"object", "int64">>,
     rows |-> << <<Text(300), IntCell(7)>>, <<NaN, IntCell(8)>> >>]
\* the header cells 1 (a number) and "1" (a text): distinct labels, same text
FrameSameText ==
    [columns |-> <<IntLabel(<<"1">>), StrLabel(<<"1">>)>>,
     dtypes |-> <<"object", "object">>,
     rows |-> << <<Text(1), Text(1)>> >>]
\* a header row and no data row: an object column without values
FrameNoRows ==
    [columns |-> <<StrLabel(<<"x">>)>>, dtypes |-> <<"object">>, rows |-> <<>>]

Frames == {FrameText, FrameTwo, FrameSameText, FrameNoRows}

SheetNamePool == { <<"a", " ", "b">>, <<"a", "_", "b">>, <<"a", "_", "b", "_", "2">> }

\* excel.sheet_names: the sheets of a workbook have distinct names
Workbooks ==
    {w \in StringsUpTo(SheetNamePool, MaxSheets) :
        /\ w # <<>>
        /\ \A a, b \in 1..Len(w) : a # b => w[a] # w[b]}

INSERT_BATCH_SIZE == 300

\* the batch size is a tunable: the value of the source and two small ones
BatchSizes == {1, 2, INSERT_BATCH_SIZE}

NAMING_MODE == "short"

----------------------------------------------------------------------------
(* make_column_mapping, make_unique_table_name *)

\* lines 44-50
RECURSIVE ExcelDigits(_)
ExcelDigits(n) ==
    LET alphabet == <<"A", "B", "C", "D", "E", "F", "G", "H", "I", "J", "K", "L", "M",
                      "N", "O", "P", "Q", "R", "S", "T", "U", "V", "W", "X", "Y", "Z">>
    IN  IF n > 0
        THEN ExcelDigits((n - 1) \div 26) \o <<alphabet[((n - 1) % 26) + 1]>>
        ELSE <<>>

excel_letters(n) == ExcelDigits(n + 1)

RECURSIVE LettersDict(_, _)
LettersDict(originals, i) ==
    IF i = 0 THEN EmptyDict
    ELSE DictSet(LettersDict(originals, i - 1), originals[i], excel_letters(i - 1))

make_column_mapping(frame) ==
    LET originals == [j \in 1..Len(frame.columns) |-> StrOf(frame.columns[j])]
    IN  IF NAMING_MODE = "letters"
        THEN LettersDict(originals, Len(originals))
        ELSE make_unique_truncated(originals, MAX_COLNAME_LEN).mapping

RECURSIVE FreeTableIndex(_, _, _)
FreeTableIndex(base, registry, i) ==
    IF base \o Suffix(i) \notin registry THEN i
    ELSE FreeTableIndex(base, registry, i + 1)

\* A plausible slip: the registry is not consulted.
make_unique_table_name_unchecked(desired, registry) ==
    sanitize_identifier(desired)

\* lines 180-195: the name returned; the caller's registry gains it
make_unique_table_name(desired, registry) ==
    LET s    == sanitize_identifier(desired)
        base == IF s = <<>> THEN <<"S", "h", "e", "e", "t">> ELSE s
    IN  IF base \notin registry THEN base
        ELSE base \o Suffix(FreeTableIndex(base, registry, 2))

----------------------------------------------------------------------------
(* The store: the data tables by name and the colmap table __column_map,  *)
(* a bag of rows (table_name, original_name, short_name). No sheet's table *)
(* is named __column_map: sanitize_identifier strips leading underscores.  *)

EmptyStore == [tables |-> EmptyDict, map_exists |-> FALSE, map_rows |-> EmptyBag]

\* lines 109-110
table_exists(store, table) == table \in DOMAIN store.tables

\* lines 113-115
drop_table_if_exists(store, table) ==
    IF table_exists(store, table)
    THEN [store EXCEPT !.tables = [t \in DOMAIN @ \ {table} |-> @[t]]]
    ELSE store

\* lines 145-149: the column list of CREATE TABLE
ColumnList(frame, colmap) ==
    [j \in 1..Len(frame.columns) |->
        [name |-> colmap[StrOf(frame.columns[j])],
         type |-> access_type_for_series(Column(frame, j))]]

\* create_table raises: type inference raises ValueError (line 105), or the
\* store rejects a CREATE TABLE that names one column twice
CreateTableRaises(frame, colmap) ==
    LET cols == ColumnList(frame, colmap)
    IN  \/ \E j \in 1..Len(cols) : cols[j].type = "ValueError"
        \/ \E a, b \in 1..Len(cols) : a # b /\ cols[a].name = cols[b].name

\* lines 144-152
create_table(store, table, frame, colmap) ==
    [drop_table_if_exists(store, table) EXCEPT !.tables =
        DictSet(@, table, [cols |-> ColumnList(frame, colmap), rows |-> <<>>])]

\* lines 118-130
ensure_mapping_table(store) ==
    IF store.map_exists THEN store
    ELSE [store EXCEPT !.map_exists = TRUE, !.map_rows = EmptyBag]

\* lines 136-141: one row per item of the dict
MappingRows(target_table, colmap) ==
    {<<target_table, orig, colmap[orig]>> : orig \in DOMAIN colmap}

\* A plausible slip: the table's old rows are not deleted first.
write_mapping_no_delete(store, target_table, colmap) ==
    [ensure_mapping_table(store) EXCEPT !.map_rows =
        @ (+) SetToBag(MappingRows(target_table, colmap))]

\* lines 133-141
write_mapping(store, target_table, colmap) ==
    LET s1   == ensure_mapping_table(store)
        kept == [r \in {x \in DOMAIN s1.map_rows : x[1] # target_table}
                    |-> s1.map_rows[r]]
    IN  [s1 EXCEPT !.map_rows = kept (+) SetToBag(MappingRows(target_table, colmap))]

\* line 176: cursor.executemany(sql, batch)
executemany_insert(store, table, batch) ==
    [store EXCEPT !.tables[table].rows = @ \o batch]

\* A plausible slip: the connection is opened with autocommit on.
AutocommitOn == TRUE

\* line 238: pyodbc.connect(conn_str, autocommit=False)
Autocommit == FALSE

\* what a statement leaves committed
AfterStatement(store) == IF Autocommit THEN store ELSE committed

----------------------------------------------------------------------------
(* main *)

MainIdle ==
    /\ pc = "off" /\ sheet_names = <<>> /\ sheet_idx = 0
    /\ used_table_names = {} /\ df = NoFrame /\ table_name = <<>>
    /\ col_mapping = EmptyDict /\ n_sent = 0 /\ insert_batch_size = 1
    /\ db = EmptyStore /\ committed = EmptyStore
    /\ assigned = <<>> /\ imported = EmptyDict /\ replaced = FALSE

\* the database file exists and is empty
MainInit ==
    /\ pc = "idle" /\ sheet_names = <<>> /\ sheet_idx = 0
    /\ used_table_names = {} /\ df = NoFrame /\ table_name = <<>>
    /\ col_mapping = EmptyDict /\ n_sent = 0
    /\ insert_batch_size \in BatchSizes
    /\ db = EmptyStore /\ committed = EmptyStore
    /\ assigned = <<>> /\ imported = EmptyDict /\ replaced = FALSE

Stopped == pc \in {"idle", "done", "failed"}

\* lines 227-239: a run starts; the connection sees what is committed
StartRun ==
    /\ Stopped
    /\ sheet_names' \in Workbooks
    /\ pc' = "sheet" /\ sheet_idx' = 0
    /\ used_table_names' = {} /\ assigned' = <<>>
    /\ df' = NoFrame /\ table_name' = <<>> /\ col_mapping' = EmptyDict
    /\ n_sent' = 0
    /\ db' = committed
    /\ UNCHANGED <<insert_batch_size, committed, imported, replaced, otherThanMain>>

\* lines 238, 259-265: the connection cannot be opened
ConnectFails ==
    /\ Stopped
    /\ pc' = "failed"
    /\ UNCHANGED <<sheet_names, sheet_idx, used_table_names, df, table_name,
                   col_mapping, n_sent, insert_batch_size, db, committed,
                   assigned, imported, replaced, otherThanMain>>

\* lines 241-247
ReadSheet ==
    /\ pc = "sheet" /\ sheet_idx < Len(sheet_names)
    /\ \E frame \in Frames :
         /\ df' = frame
         /\ col_mapping' = make_column_mapping(frame)
    /\ table_name' = make_unique_table_name(sheet_names[sheet_idx + 1], used_table_names)
    /\ used_table_names' = used_table_names \cup {table_name'}
    /\ assigned' = Append(assigned, table_name')
    /\ n_sent' = 0
    /\ pc' = "create"
    /\ UNCHANGED <<sheet_names, sheet_idx, insert_batch_size, db, committed,
                   imported, replaced, otherThanMain>>

\* line 249
CreateTable ==
    /\ pc = "create"
    /\ ~CreateTableRaises(df, col_mapping)
    /\ db' = create_table(db, table_name, df, col_mapping)
    /\ committed' = AfterStatement(db')
    /\ pc' = "write_mapping"
    /\ UNCHANGED <<sheet_names, sheet_idx, used_table_names, df, table_name,
                   col_mapping, n_sent, insert_batch_size, assigned, imported,
                   replaced, otherThanMain>>

\* line 250
WriteMapping ==
    /\ pc = "write_mapping"
    /\ db' = write_mapping(db, table_name, col_mapping)
    /\ committed' = AfterStatement(db')
    /\ pc' = "insert"
    /\ UNCHANGED <<sheet_names, sheet_idx, used_table_names, df, table_name,
                   col_mapping, n_sent, insert_batch_size, assigned, imported,
                   replaced, otherThanMain>>

SheetBatches == batched(RowsIter(df.rows), insert_batch_size)

\* lines 175-176
InsertBatch ==
    /\ pc = "insert" /\ n_sent < Len(SheetBatches)
    /\ db' = executemany_insert(db, table_name, SheetBatches[n_sent + 1])
    /\ committed' = AfterStatement(db')
    /\ n_sent' = n_sent + 1
    /\ UNCHANGED <<pc, sheet_names, sheet_idx, used_table_names, df, table_name,
                   col_mapping, insert_batch_size, assigned, imported,
                   replaced, otherThanMain>>

\* line 253
Commit ==
    /\ pc = "insert" /\ n_sent = Len(SheetBatches)
    /\ committed' = db
    /\ sheet_idx' = sheet_idx + 1
    /\ imported' = DictSet(imported, table_name, df)
    /\ replaced' = /\ table_exists(committed, table_name)
                   /\ committed.tables[table_name].rows # db.tables[table_name].rows
    /\ pc' = "sheet"
    /\ UNCHANGED <<sheet_names, used_table_names, df, table_name, col_mapping,
                   n_sent, insert_batch_size, db, assigned, otherThanMain>>

\* lines 241, 256: the loop ends; leaving the with block commits
FinishRun ==
    /\ pc = "sheet" /\ sheet_idx = Len(sheet_names)
    /\ committed' = db
    /\ pc' = "done"
    /\ UNCHANGED <<sheet_names, sheet_idx, used_table_names, df, table_name,
                   col_mapping, n_sent, insert_batch_size, db, assigned,
                   imported, replaced, otherThanMain>>

\* lines 244-253 raise (the sheet cannot be read, create_table raises, the
\* driver rejects a statement or the commit): the exception leaves the with
\* block, which rolls the open transaction back, and the run ends
SheetFails ==
    /\ \/ pc = "sheet" /\ sheet_idx < Len(sheet_names)
       \/ pc \in {"create", "write_mapping", "insert"}
    /\ db' = committed
    /\ pc' = "failed"
    /\ UNCHANGED <<sheet_names, sheet_idx, used_table_names, df, table_name,
                   col_mapping, n_sent, insert_batch_size, committed, assigned,
                   imported, replaced, otherThanMain>>

----------------------------------------------------------------------------
(* Properties of the import *)

\* the mapping rows a store holds for one table
MapRowsFor(store, table) ==
    [r \in {x \in DOMAIN store.map_rows : x[1] = table} |-> store.map_rows[r]]

Range(seq) == {seq[j] : j \in 1..Len(seq)}

RepeatsText(frame) ==
    \E a, b \in 1..Len(frame.columns) :
        a # b /\ StrOf(frame.columns[a]) = StrOf(frame.columns[b])

\* C2: for a sheet two of whose headers have the same original text, the
\* column mapping yields one mapping row per column, with pairwise distinct
\* short names, and once create_table and write_mapping have run the mapping
\* table holds exactly those rows for the table and the table has one
\* distinct column per column of the sheet.
C2_RepeatedHeaderRoundTrip ==
    (pc \in {"create", "write_mapping", "insert"} /\ RepeatsText(df)) =>
        /\ Cardinality(MappingRows(table_name, col_mapping)) = Len(df.columns)
        /\ Cardinality({r[3] : r \in MappingRows(table_name, col_mapping)})
               = Len(df.columns)
        /\ pc = "insert" =>
             /\ MapRowsFor(db, table_name)
                    = SetToBag(MappingRows(table_name, col_mapping))
             /\ Len(db.tables[table_name].cols) = Len(df.columns)
             /\ Distinct([j \in 1..Len(df.columns) |-> db.tables[table_name].cols[j].name])

\* C3: importing a sheet again replaces what the store held for its table:
\* once committed, the mapping rows of the table are exactly the latest run's,
\* each once, the mapping rows and data of every other table are as before,
\* and the data table holds exactly the latest run's rows.
C3_ReimportReplaces ==
    [][ (pc = "insert" /\ pc' = "sheet") =>
          /\ table_exists(committed', table_name)
          /\ committed'.tables[table_name].rows = RowsIter(df.rows)
          /\ MapRowsFor(committed', table_name)
                 = SetToBag(MappingRows(table_name, col_mapping))
          /\ \A t \in (DOMAIN committed.tables \cup DOMAIN committed'.tables)
                        \ {table_name} :
                /\ table_exists(committed, t) /\ table_exists(committed', t)
                /\ committed'.tables[t] = committed.tables[t]
                /\ MapRowsFor(committed', t) = MapRowsFor(committed, t)
      ]_vars

\* a committed re-import replaced a table holding other rows, beside a table
\* of another sheet
C3_Witness ==
    /\ pc = "sheet" /\ sheet_idx >= 1 /\ replaced
    /\ committed.tables[table_name].rows = RowsIter(df.rows)
    /\ df.rows # <<>>
    /\ Cardinality(DOMAIN committed.tables) >= 2
    /\ BagCardinality(MapRowsFor(committed, table_name)) = Len(df.columns)

\* what the store holds of a table whose sheet was imported whole
WholeSheetsCommitted ==
    /\ DOMAIN committed.tables = DOMAIN imported
    /\ \A r \in DOMAIN committed.map_rows : r[1] \in DOMAIN imported
    /\ \A t \in DOMAIN imported :
         LET frame  == imported[t]
             colmap == make_column_mapping(frame)
         IN  /\ committed.tables[t] =
                   [cols |-> ColumnList(frame, colmap), rows |-> RowsIter(frame.rows)]
             /\ MapRowsFor(committed, t) = SetToBag(MappingRows(t, colmap))

CommitDiscipline ==
    /\ committed' # committed =>
         /\ pc = "insert" /\ n_sent = Len(SheetBatches)
         /\ committed' = db
         /\ table_exists(db, table_name)
         /\ db.tables[table_name].rows = RowsIter(df.rows)
         /\ MapRowsFor(db, table_name) = SetToBag(MappingRows(table_name, col_mapping))
    /\ pc' = "failed" => committed' = committed /\ sheet_idx' = sheet_idx
    /\ pc = "failed" =>
         /\ committed' = committed
         /\ pc' = "failed" \/ (pc' = "sheet" /\ sheet_idx' = 0 /\ db' = committed)

\* C4: what is committed reflects whole sheets only. A commit happens only
\* when the sheet's table is created, its mapping rows are written and all
\* its rows are inserted; a failing step commits nothing of its sheet, ends
\* the run (no later sheet is read or committed) and leaves the sheets
\* committed before it committed.
C4_WholeSheetCommits ==
    []WholeSheetsCommitted /\ [][CommitDiscipline]_vars

\* the second sheet of a run failed after one of its batches was sent; the
\* first sheet's table is committed, the second's is not
C4_Witness ==
    /\ pc = "failed" /\ sheet_idx = 1 /\ Len(assigned) = 2 /\ n_sent >= 1
    /\ table_exists(committed, assigned[1])
    /\ ~table_exists(committed, assigned[2])

\* C7: a table name returned is not in the registry before the call and is
\* in it after; within a run the registry only grows; so the table names
\* assigned to the sheets of a workbook are pairwise distinct.
C7_TableNamesUnique ==
    [][ /\ (pc = "sheet" /\ pc' = "create") =>
              /\ table_name' \notin used_table_names
              /\ table_name' \in used_table_names'
        /\ ~Stopped => used_table_names \subseteq used_table_names'
        /\ used_table_names' = Range(assigned')
        /\ Distinct(assigned')
      ]_vars

\* two sheets whose names sanitize to the same identifier
C7_Witness ==
    /\ sheet_names = << <<"a", " ", "b">>, <<"a", "_", "b">> >>
    /\ assigned = << <<"a", "_", "b">>, <<"a", "_", "b", "_", "2">> >>
    /\ used_table_names = Range(assigned)

----------------------------------------------------------------------------
(* Specifications *)

SanNext == SanApply \/ SanReapply
InitOfSan == SanInit /\ UniqIdle /\ InsIdle /\ TypeIdle /\ MainIdle
SpecSan == InitOfSan /\ [][SanNext]_vars

UniqNext == UniqAccept \/ UniqCollide \/ UniqTake \/ UniqRetry \/ UniqReturn
InitOfUniq == UniqInit /\ SanIdle /\ InsIdle /\ TypeIdle /\ MainIdle
SpecUniq == InitOfUniq /\ [][UniqNext]_vars

InsNext == InsertRowsBatch \/ InsertRowsReturn
InitOfInsert == InsInit /\ SanIdle /\ UniqIdle /\ TypeIdle /\ MainIdle
SpecInsert == InitOfInsert /\ [][InsNext]_vars

TypeNext == TypeInfer
InitOfType == TypeInit /\ SanIdle /\ UniqIdle /\ InsIdle /\ MainIdle
SpecType == InitOfType /\ [][TypeNext]_vars

Init == MainInit /\ SanIdle /\ UniqIdle /\ InsIdle /\ TypeIdle
Next == \/ StartRun \/ ConnectFails \/ ReadSheet \/ CreateTable \/ WriteMapping
        \/ InsertBatch \/ Commit \/ FinishRun \/ SheetFails
Spec == Init /\ [][Next]_vars

====
